---- MODULE Spec2Model ----
(***************************************************************************)
(* Model of store/postgres/src/dynds/private.rs: DataSourcesTable, the     *)
(* `data_sources$` table of a deployment and its operations load, insert,  *)
(* revert, copy_to and remove_offchain.  Two tables are modelled, "src"    *)
(* and "dst"; each holds its rows and its two identity sequences (vid and  *)
(* causality_region).  Every SQL statement is modelled by what PostgreSQL  *)
(* does with it on int4range values and NULLs.                             *)
(***************************************************************************)
EXTENDS Integers, Sequences, FiniteSets, TLC

VARIABLES tables, result, inserted, history, txn

vars == <<tables, result, inserted, history, txn>>

(* ------------------------------ bounds --------------------------------- *)

\* Largest block number used as an argument.
MaxBlock == 1
\* Cap on the number of vids handed out by the two identity sequences together.
MaxVids == 3
\* Longest slice passed to insert.
MaxInsert == 3
\* Longest slice passed to remove_offchain.
MaxRemove == 2
\* Cap on the number of vids handed out by each sequence while a table is copied.
MaxCopy == 2

\* i32::MAX, the limit of the `as i32` / `as u32` casts of manifest_idx.
I32Max == 2147483647

(* ------------------------------ values --------------------------------- *)

\* Option<T> and nullable SQL values: None / NULL is <<>>, Some(x) is <<x>>.
None == <<>>
Some(x) == <<x>>

Tables == {"src", "dst"}
Blocks == 0..MaxBlock

\* Blocks at which load is asked: one past the last block that is written.
QueryBlocks == 0..(MaxBlock + 1)

\* The data sources callers hand in, before their creation block is set: an
\* on-chain and an off-chain one with the same (manifest_idx, param, context),
\* and an off-chain one that differs from them in each of the three.
Templates ==
    { [manifest_idx |-> 1, param |-> None, context |-> None, is_offchain |-> FALSE],
      [manifest_idx |-> 1, param |-> None, context |-> None, is_offchain |-> TRUE],
      [manifest_idx |-> 2, param |-> Some("0xab"), context |-> Some("{}"),
       is_offchain |-> TRUE] }

\* StoredDynamicDataSource values handed in by callers.
StoredDynamicDataSource ==
    { [manifest_idx |-> p.manifest_idx, param |-> p.param, context |-> p.context,
       creation_block |-> cb, is_offchain |-> p.is_offchain] :
         p \in Templates, cb \in {None} \cup {Some(b) : b \in Blocks} }

\* Slices of at most n records of S.
Slices(S, n) == UNION { [1..k -> S] : k \in 0..n }

\* Records insert(_, block) rejects.  The rejection reads nothing but
\* creation_block, so the on-chain template stands for all of them.
Mismatched(block) ==
    {ds \in StoredDynamicDataSource :
        /\ ~ds.is_offchain
        /\ ds.creation_block \in {None, Some((block + 1) % (MaxBlock + 1))}}

\* InsertBatches[block][room]: the slices passed to insert(_, block) when `room`
\* vids are left.
InsertBatches ==
    [block \in Blocks |-> [room \in 0..MaxVids |->
        Slices({ds \in StoredDynamicDataSource : ds.creation_block = Some(block)}
                  \cup Mismatched(block),
               IF room < MaxInsert THEN room ELSE MaxInsert)]]

\* The slices passed to remove_offchain.  Nothing but is_offchain is read of an
\* on-chain record, so one on-chain record stands for all of them: one that
\* names the payload and the block of rows a table can hold.
RemoveBatches ==
    Slices({ds \in StoredDynamicDataSource :
                ds.is_offchain \/ ds.creation_block = Some(0)},
           MaxRemove)

(* --------------------------- int4range --------------------------------- *)

\* 'empty'::int4range
EmptyRange == [empty |-> TRUE, lower |-> None, upper |-> None]

\* int4range(lo, hi) in canonical form [lo, hi); a NULL argument is unbounded.
Int4Range(lo, hi) ==
    IF lo # None /\ hi # None /\ lo[1] >= hi[1]
    THEN EmptyRange
    ELSE [empty |-> FALSE, lower |-> lo, upper |-> hi]

\* lower(r), upper(r): NULL for the empty range and for an unbounded side.
Lower(r) == IF r.empty THEN None ELSE r.lower
Upper(r) == IF r.empty THEN None ELSE r.upper

\* Faulty variant of RangeContains: the lower bound is taken as exclusive.
RangeContainsOpenLower(r, b) ==
    /\ ~r.empty
    /\ (r.lower = None \/ r.lower[1] < b)
    /\ (r.upper = None \/ b < r.upper[1])

\* r @> b
RangeContains(r, b) ==
    /\ ~r.empty
    /\ (r.lower = None \/ r.lower[1] <= b)
    /\ (r.upper = None \/ b < r.upper[1])

\* `a <= b` used as a condition: a NULL operand makes it not true.
SqlLe(a, b) == a # None /\ b # None /\ a[1] <= b[1]

\* `a is not distinct from b`: null-safe equality.
IsNotDistinctFrom(a, b) == a = b

\* The lower bound as diesel decodes it into std::ops::Bound.
LowerBound(r) ==
    IF Lower(r) = None THEN [kind |-> "Unbounded"]
    ELSE [kind |-> "Included", block |-> Lower(r)[1]]

(* ------------------------------ casts ---------------------------------- *)

\* `x as i32` for a u32 x, and `x as u32` for an i32 x.
AsI32(x) == IF x > I32Max THEN ((x - I32Max) - I32Max) - 2 ELSE x
AsU32(x) == IF x < 0 THEN ((x + I32Max) + I32Max) + 2 ELSE x

(* ------------------------------- load ---------------------------------- *)

\* `.order_by(&self.vid)`: the rows of S in ascending vid order.
RECURSIVE OrderByVid(_)
OrderByVid(S) ==
    IF S = {} THEN <<>>
    ELSE LET r == CHOOSE x \in S : \A y \in S : x.vid <= y.vid
         IN  <<r>> \o OrderByVid(S \ {r})

\* Ordering of Option<BlockNumber> keys: None sorts before every Some.
OptLess(a, b) == IF a = None THEN b # None ELSE b # None /\ a[1] < b[1]

\* The closure of load: a selected row to its StoredDynamicDataSource.  The vid
\* is kept next to the value (it is not part of the value) so that the position
\* of every row in the result can be told.
ToDataSource(row) ==
    [ds |-> [manifest_idx |-> AsU32(row.manifest_idx),
             param |-> row.param,
             context |-> row.context,
             creation_block |->
                 IF LowerBound(row.block_range).kind = "Included"
                 THEN Some(LowerBound(row.block_range).block)
                 ELSE Some("unreachable"),
             is_offchain |-> row.causality_region > 0],
     vid |-> row.vid]

\* Faulty variant of InsertStable: x goes before the elements whose key equals its own,
\* as a sort that is not stable may place it.
InsertUnstable(sorted, x) ==
    LET pos == Cardinality({i \in 1..Len(sorted) :
                   OptLess(sorted[i].ds.creation_block, x.ds.creation_block)})
    IN  SubSeq(sorted, 1, pos) \o <<x>> \o SubSeq(sorted, pos + 1, Len(sorted))

\* One step of the stable sort: x goes after every element whose key is <= its own.
InsertStable(sorted, x) ==
    LET pos == Cardinality({i \in 1..Len(sorted) :
                   ~OptLess(x.ds.creation_block, sorted[i].ds.creation_block)})
    IN  SubSeq(sorted, 1, pos) \o <<x>> \o SubSeq(sorted, pos + 1, Len(sorted))

\* dses.sort_by_key(|v| v.creation_block), a stable sort.
RECURSIVE SortByKey(_)
SortByKey(s) ==
    IF s = <<>> THEN <<>>
    ELSE InsertStable(SortByKey(SubSeq(s, 1, Len(s) - 1)), s[Len(s)])

\* The filter of load: block_range @> block.
LiveAt(rows, block) == {r \in rows : RangeContains(r.block_range, block)}

\* load on a set of rows, each value still paired with its row's vid.
LoadTagged(rows, block) ==
    LET tuples == OrderByVid(LiveAt(rows, block))
    IN  SortByKey([i \in 1..Len(tuples) |-> ToDataSource(tuples[i])])

\* DataSourcesTable::load on a set of rows.
LoadRows(rows, block) ==
    LET dses == LoadTagged(rows, block)
    IN  [i \in 1..Len(dses) |-> dses[i].ds]

\* DataSourcesTable::load of table t in the current state.
load(t, block) == LoadRows(tables[t].rows, block)

(* ------------------------------ results -------------------------------- *)

Ok(v) == [tag |-> "Ok", val |-> v]
Err(msg) == [tag |-> "Err", val |-> msg]
Panic(msg) == [tag |-> "Panic", val |-> msg]

\* The constraint violation of remove_offchain when one record matches several rows.
TooMany == Err("expected to remove at most one offchain data source")

(* ------------------------------ insert --------------------------------- *)

\* Faulty variant of InsertRow: the causality_region is one more than the
\* largest one stored in the table instead of the next value of the sequence.
InsertRowLargestRegion(tab, ds) ==
    LET vid == tab.vid_seq + 1
        largest == CHOOSE c \in {0} \cup {r.causality_region : r \in tab.rows} :
                       \A r \in tab.rows : r.causality_region <= c
        cr  == IF ds.is_offchain THEN largest + 1 ELSE 0
        row == [vid |-> vid,
                block_range |-> Int4Range(ds.creation_block, None),
                causality_region |-> cr,
                manifest_idx |-> AsI32(ds.manifest_idx),
                parent |-> None,
                id |-> None,
                param |-> ds.param,
                context |-> ds.context]
    IN  [rows |-> tab.rows \cup {row},
         vid_seq |-> vid,
         cr_seq |-> IF ds.is_offchain /\ cr > tab.cr_seq THEN cr ELSE tab.cr_seq]

\* One `insert into ... values (int4range($1, null), ...)` statement.
InsertRow(tab, ds) ==
    LET vid == tab.vid_seq + 1
        cr  == IF ds.is_offchain THEN tab.cr_seq + 1 ELSE 0
        row == [vid |-> vid,
                block_range |-> Int4Range(ds.creation_block, None),
                causality_region |-> cr,
                manifest_idx |-> AsI32(ds.manifest_idx),
                parent |-> None,
                id |-> None,
                param |-> ds.param,
                context |-> ds.context]
    IN  [rows |-> tab.rows \cup {row},
         vid_seq |-> vid,
         cr_seq |-> IF ds.is_offchain THEN tab.cr_seq + 1 ELSE tab.cr_seq]

\* Faulty variant of InsertFrom: the creation blocks of all records are checked before
\* the first row is written.
RECURSIVE InsertAllOrNothing(_, _, _, _, _)
InsertAllOrNothing(tab, data_sources, block, i, inserted_total) ==
    IF \E j \in i..Len(data_sources) : data_sources[j].creation_block # Some(block)
    THEN [tab |-> tab, result |-> Err("mismatching creation blocks")]
    ELSE IF i > Len(data_sources) THEN [tab |-> tab, result |-> Ok(inserted_total)]
         ELSE InsertAllOrNothing(InsertRow(tab, data_sources[i]), data_sources, block,
                                 i + 1, inserted_total + 1)

\* The loop of insert from record i on, with inserted_total rows written so far.
RECURSIVE InsertFrom(_, _, _, _, _)
InsertFrom(tab, data_sources, block, i, inserted_total) ==
    IF i > Len(data_sources) THEN [tab |-> tab, result |-> Ok(inserted_total)]
    ELSE IF data_sources[i].creation_block # Some(block)
         THEN [tab |-> tab, result |-> Err("mismatching creation blocks")]
         ELSE InsertFrom(InsertRow(tab, data_sources[i]), data_sources, block,
                         i + 1, inserted_total + 1)

(* ------------------------------ revert --------------------------------- *)

\* Faulty variant of RevertRows: `and lower(block_range) = $1` is missing.
RevertRowsContaining(rows, block) ==
    {r \in rows : ~RangeContains(r.block_range, block)}

\* Faulty variant of RevertRows: only on-chain rows are deleted.
RevertRowsOnchain(rows, block) ==
    {r \in rows : ~(/\ RangeContains(r.block_range, block)
                    /\ Lower(r.block_range) = Some(block)
                    /\ r.causality_region = 0)}

\* Faulty variant of RevertRows: `lower(block_range) >= $1`, which also
\* deletes the rows created after the block.
RevertRowsFrom(rows, block) ==
    {r \in rows : ~(/\ Lower(r.block_range) # None
                    /\ Lower(r.block_range)[1] >= block)}

\* delete from t where block_range @> $1 and lower(block_range) = $1
RevertRows(rows, block) ==
    {r \in rows : ~(/\ RangeContains(r.block_range, block)
                    /\ Lower(r.block_range) = Some(block))}

(* --------------------------- remove_offchain --------------------------- *)

\* The where clause of the update of remove_offchain.
RemoveMatches(row, ds) ==
    /\ row.manifest_idx = AsI32(ds.manifest_idx)
    /\ IsNotDistinctFrom(row.param, ds.param)
    /\ IsNotDistinctFrom(row.context, ds.context)
    /\ IsNotDistinctFrom(Lower(row.block_range), ds.creation_block)

\* Faulty variant of RemoveUpdate: the interval is closed after the creation block
\* instead of being set to the empty interval.
RemoveUpdateClosing(rows, ds) ==
    {IF RemoveMatches(r, ds) /\ Lower(r.block_range) # None
     THEN [r EXCEPT !.block_range =
              Int4Range(Lower(r.block_range), Some(Lower(r.block_range)[1] + 1))]
     ELSE r : r \in rows}

\* update t set block_range = 'empty'::int4range where ...
RemoveUpdate(rows, ds) ==
    {IF RemoveMatches(r, ds) THEN [r EXCEPT !.block_range = EmptyRange] ELSE r :
        r \in rows}

\* The error of remove_offchain for an on-chain input record.
OnchainInput == Err("called remove_offchain with onchain data sources")

\* Faulty variant of RemoveFrom: is_offchain is looked at after the update of
\* the record has run.
RECURSIVE RemoveFromLateCheck(_, _, _)
RemoveFromLateCheck(rows, data_sources, i) ==
    IF i > Len(data_sources) THEN [rows |-> rows, result |-> Ok(None)]
    ELSE LET count == Cardinality({r \in rows : RemoveMatches(r, data_sources[i])})
             updated == RemoveUpdate(rows, data_sources[i])
         IN  IF ~data_sources[i].is_offchain
             THEN [rows |-> updated, result |-> OnchainInput]
             ELSE IF count > 1
                  THEN [rows |-> updated, result |-> TooMany]
                  ELSE RemoveFromLateCheck(updated, data_sources, i + 1)

\* The loop of remove_offchain from record i on.
RECURSIVE RemoveFrom(_, _, _)
RemoveFrom(rows, data_sources, i) ==
    IF i > Len(data_sources) THEN [rows |-> rows, result |-> Ok(None)]
    ELSE IF ~data_sources[i].is_offchain
         THEN [rows |-> rows,
               result |-> OnchainInput]
         ELSE LET count == Cardinality({r \in rows : RemoveMatches(r, data_sources[i])})
                  updated == RemoveUpdate(rows, data_sources[i])
              IN  IF count > 1
                  THEN [rows |-> updated,
                        result |-> TooMany]
                  ELSE RemoveFrom(updated, data_sources, i + 1)

(* ------------------------------ copy_to -------------------------------- *)

\* Faulty variant of CopySelected: `<` for `<=`.
CopySelectedBefore(rows, target_block) ==
    {e \in rows : Lower(e.block_range) # None /\ Lower(e.block_range)[1] < target_block}

\* The rows the select of copy_to yields: where lower(e.block_range) <= $1.
CopySelected(rows, target_block) ==
    {e \in rows : SqlLe(Lower(e.block_range), Some(target_block))}

\* Faulty variant of CopyRange: an interval that reaches beyond the target
\* block is cut off after it instead of being opened.
CopyRangeCut(r, target_block) ==
    IF SqlLe(Upper(r), Some(target_block)) THEN r
    ELSE Int4Range(Lower(r), Some(target_block + 1))

\* The case expression of copy_to.
CopyRange(r, target_block) ==
    IF SqlLe(Upper(r), Some(target_block)) THEN r
    ELSE Int4Range(Lower(r), None)

\* The orders in which the select, which has no order by, may yield its rows.
Orderings(S) ==
    {f \in [1..Cardinality(S) -> S] : \A i, j \in 1..Cardinality(S) : f[i] = f[j] => i = j}

\* Faulty variant of CopiedRows: causality_region is left out of the column
\* list, so that dst numbers the off-chain rows afresh.
CopiedRowsFreshRegion(order, vid_seq, target_block) ==
    { [vid |-> vid_seq + i,
       block_range |-> CopyRange(order[i].block_range, target_block),
       causality_region |-> IF order[i].causality_region > 0 THEN i ELSE 0,
       manifest_idx |-> order[i].manifest_idx,
       parent |-> order[i].parent,
       id |-> order[i].id,
       param |-> order[i].param,
       context |-> order[i].context] : i \in 1..Len(order) }

\* The rows inserted into dst when the select yields `order`: vid comes from the
\* identity sequence of dst, every other column from the source row.
CopiedRows(order, vid_seq, target_block) ==
    { [vid |-> vid_seq + i,
       block_range |-> CopyRange(order[i].block_range, target_block),
       causality_region |-> order[i].causality_region,
       manifest_idx |-> order[i].manifest_idx,
       parent |-> order[i].parent,
       id |-> order[i].id,
       param |-> order[i].param,
       context |-> order[i].context] : i \in 1..Len(order) }

\* Faulty variant of CopyOutcomes: the rows of dst are not counted before copying.
CopyOutcomesUnchecked(src, dst, target_block, debug) ==
    { LET copied == [dst EXCEPT
              !.rows = dst.rows \cup CopiedRows(order, dst.vid_seq, target_block),
              !.vid_seq = dst.vid_seq + Len(order)]
      IN  [dst |-> copied, result |-> Ok(Len(order))] :
      order \in Orderings(CopySelected(src.rows, target_block)) }

\* The outcomes of copy_to from table src into table dst, one for each order
\* in which the select may yield its rows.  `debug` tells whether the build
\* has debug assertions.
CopyOutcomes(src, dst, target_block, debug) ==
    LET count == Cardinality(dst.rows)
    IN  IF count > 0
        THEN {[dst |-> dst, result |-> Ok(count)]}
        ELSE { LET copied == [dst EXCEPT
                       !.rows = CopiedRows(order, dst.vid_seq, target_block),
                       !.vid_seq = dst.vid_seq + Len(order)]
               IN  [dst |-> copied,
                    result |->
                        IF debug /\ LoadRows(src.rows, target_block)
                                      # LoadRows(copied.rows, target_block)
                        THEN Panic("assertion failed")
                        ELSE Ok(Len(order))] :
               order \in Orderings(CopySelected(src.rows, target_block)) }

(* ------------------------------- state --------------------------------- *)

\* The transactions that may be open on a table at the same time.
Transactions == {"t1", "t2"}

\* A table as created by as_ddl: no rows, both identity sequences unused.
NewTable == [rows |-> {}, vid_seq |-> 0, cr_seq |-> 0]

\* The vids the two identity sequences may still hand out.
Room == MaxVids - (tables["src"].vid_seq + tables["dst"].vid_seq)

\* The entries of `inserted` whose row the step left exactly as it was.
Untouched(ins, old, new) ==
    {e \in ins : \E r \in old[e.tbl].rows :
         r.vid = e.vid /\ r \in new[e.tbl].rows}

\* tables: the rows and the two identity sequences of each table.
\* result: what the last call returned.
\* inserted: for every row written by insert and not changed or deleted since,
\*   the table, the vid, the block and the record it was written from.
\* history: the last call.  An insert that wrote rows: its table and block, kept
\*   by a revert of that table and block that follows it at once.  A
\*   remove_offchain that failed on several matches: its table and the rows
\*   before the call.  A copy_to: its target block, whether dst was empty, and
\*   whether it follows at once a copy_to to the same block that returned.
\* txn: for each open transaction, the vids of the rows of "src" it has
\*   written and not yet committed.
Init ==
    /\ tables = [t \in Tables |-> NewTable]
    /\ result = Ok(None)
    /\ inserted = {}
    /\ history = [op |-> "none"]
    /\ txn = [x \in Transactions |-> {}]

\* DataSourcesTable::insert on table t, whatever transaction runs it.
InsertCall(t, data_sources, block) ==
    LET r == InsertFrom(tables[t], data_sources, block, 1, 0)
        new == r.tab.rows \ tables[t].rows
    IN  /\ tables' = [tables EXCEPT ![t] = r.tab]
        /\ result' = r.result
        /\ inserted' = inserted \cup
               {[tbl |-> t, vid |-> row.vid, block |-> block,
                 ds |-> data_sources[row.vid - tables[t].vid_seq]] : row \in new}
        /\ history' = IF new = {} THEN [op |-> "insert"]
                      ELSE [op |-> "insert", tbl |-> t, block |-> block]

\* DataSourcesTable::insert on table t, in a transaction that commits.
insert(t, data_sources, block) ==
    /\ InsertCall(t, data_sources, block)
    /\ UNCHANGED txn

\* Faulty variant of revert: the vid sequence is set back to the largest vid
\* that is left in the table.
revert_rewinding(t, block) ==
    LET rows == RevertRows(tables[t].rows, block)
        largest == CHOOSE v \in {0} \cup {r.vid : r \in rows} :
                       \A r \in rows : r.vid <= v
    IN  /\ tables' = [tables EXCEPT ![t].rows = rows, ![t].vid_seq = largest]
        /\ result' = Ok(None)
        /\ inserted' = Untouched(inserted, tables, tables')
        /\ history' = IF history = [op |-> "insert", tbl |-> t, block |-> block]
                      THEN [op |-> "insert_revert", tbl |-> t, block |-> block]
                      ELSE [op |-> "revert"]
        /\ UNCHANGED txn

\* DataSourcesTable::revert on table t.
revert(t, block) ==
    /\ tables' = [tables EXCEPT ![t].rows = RevertRows(tables[t].rows, block)]
    /\ result' = Ok(None)
    /\ inserted' = Untouched(inserted, tables, tables')
    /\ history' = IF history = [op |-> "insert", tbl |-> t, block |-> block]
                  THEN [op |-> "insert_revert", tbl |-> t, block |-> block]
                  ELSE [op |-> "revert"]
    /\ UNCHANGED txn

\* DataSourcesTable::remove_offchain on table t.
remove_offchain(t, data_sources) ==
    LET r == RemoveFrom(tables[t].rows, data_sources, 1)
    IN  /\ tables' = [tables EXCEPT ![t].rows = r.rows]
        /\ result' = r.result
        /\ inserted' = Untouched(inserted, tables, tables')
        /\ history' = IF r.result = TooMany
                      THEN [op |-> "remove_offchain", tbl |-> t, pre |-> tables[t].rows]
                      ELSE [op |-> "remove_offchain"]
        /\ UNCHANGED txn

\* Faulty variant of copy_to: the rows are moved, not copied: the rows the
\* select yields are deleted from the source.
copy_to_moving(target_block, debug, room) ==
    \E o \in CopyOutcomes(tables["src"], tables["dst"], target_block, debug) :
        /\ o.dst.vid_seq - tables["dst"].vid_seq <= room
        /\ tables' = [tables EXCEPT
               !["dst"] = o.dst,
               !["src"].rows = IF tables["dst"].rows = {}
                               THEN @ \ CopySelected(@, target_block) ELSE @]
        /\ result' = o.result
        /\ inserted' = Untouched(inserted, tables, tables')
        /\ history' = [op |-> "copy_to", block |-> target_block,
                       empty |-> tables["dst"].rows = {},
                       again |-> /\ history.op = "copy_to"
                                 /\ history.block = target_block
                                 /\ result.tag = "Ok"]
        /\ UNCHANGED txn

\* DataSourcesTable::copy_to from table "src" to table "dst", while the
\* sequence of dst has `room` vids left to hand out.
copy_to(target_block, debug, room) ==
    \E o \in CopyOutcomes(tables["src"], tables["dst"], target_block, debug) :
        /\ o.dst.vid_seq - tables["dst"].vid_seq <= room
        /\ tables' = [tables EXCEPT !["dst"] = o.dst]
        /\ result' = o.result
        /\ inserted' = inserted
        /\ history' = [op |-> "copy_to", block |-> target_block,
                       empty |-> tables["dst"].rows = {},
                       again |-> /\ history.op = "copy_to"
                                 /\ history.block = target_block
                                 /\ result.tag = "Ok"]
        /\ UNCHANGED txn

Next ==
    \/ \E t \in Tables, b \in Blocks :
          \E dss \in InsertBatches[b][Room] : insert(t, dss, b)
    \/ \E t \in Tables, b \in Blocks : revert(t, b)
    \/ \E t \in Tables, dss \in RemoveBatches : remove_offchain(t, dss)
    \/ \E b \in Blocks, debug \in BOOLEAN : copy_to(b, debug, Room)

Spec == Init /\ [][Next]_vars

(* ------------------------- copying a table ----------------------------- *)

\* The calls on a deployment that is copied: insert, revert and remove_offchain
\* on "src", and copy_to into "dst", which is written by copy_to alone.  Each
\* of the two sequences hands out MaxCopy vids at most.
NextCopy ==
    \/ \E b \in Blocks :
          \E dss \in InsertBatches[b][MaxCopy - tables["src"].vid_seq] :
              insert("src", dss, b)
    \/ \E b \in Blocks : revert("src", b)
    \/ \E dss \in RemoveBatches : remove_offchain("src", dss)
    \/ \E b \in Blocks, debug \in BOOLEAN :
          copy_to(b, debug, MaxCopy - tables["dst"].vid_seq)

SpecCopy == Init /\ [][NextCopy]_vars

(* --------------------- concurrent transactions ------------------------- *)

\* DataSourcesTable::insert on "src" inside the open transaction x.  Each
\* insert statement draws its vid and its causality_region from the identity
\* sequences of as_ddl as it runs; the statements of the two transactions
\* interleave call by call.
txn_insert(x, data_sources, block) ==
    /\ InsertCall("src", data_sources, block)
    /\ txn' = [txn EXCEPT ![x] = @ \cup
                  {r.vid : r \in tables'["src"].rows \ tables["src"].rows}]

\* Transaction x commits: its rows stay.
commit(x) ==
    /\ txn[x] # {}
    /\ txn' = [txn EXCEPT ![x] = {}]
    /\ result' = Ok(None)
    /\ history' = [op |-> "commit"]
    /\ UNCHANGED <<tables, inserted>>

\* Transaction x aborts: the rows it wrote are gone; an identity sequence is
\* not transactional, so what it handed out stays handed out.
abort(x) ==
    /\ txn[x] # {}
    /\ tables' = [tables EXCEPT !["src"].rows = {r \in @ : r.vid \notin txn[x]}]
    /\ txn' = [txn EXCEPT ![x] = {}]
    /\ result' = Ok(None)
    /\ inserted' = Untouched(inserted, tables, tables')
    /\ history' = [op |-> "abort"]

NextTxn ==
    \/ \E x \in Transactions, b \in Blocks :
          \E dss \in InsertBatches[b][Room] : txn_insert(x, dss, b)
    \/ \E x \in Transactions : commit(x)
    \/ \E x \in Transactions : abort(x)

SpecTxn == Init /\ [][NextTxn]_vars

(* ------------------------------ claims --------------------------------- *)

\* The elements of a sequence, and the vids of a tagged load result.
Range(s) == {s[i] : i \in DOMAIN s}
Vids(l) == {l[i].vid : i \in DOMAIN l}

\* A row that no remove_offchain has closed.
IsLive(r) == ~r.block_range.empty

\* C1: in every table and at every block, load returns its records in strictly
\* increasing (creation_block, vid) order: an earlier creation block first, and
\* within one creation block the order of insertion.
C1_LoadOrdered ==
    \A t \in Tables, b \in QueryBlocks :
        LET l == LoadTagged(tables[t].rows, b)
        IN  \A i, j \in DOMAIN l :
                i < j =>
                    \/ OptLess(l[i].ds.creation_block, l[j].ds.creation_block)
                    \/ /\ l[i].ds.creation_block = l[j].ds.creation_block
                       /\ l[i].vid < l[j].vid

\* C1 witness: a load of three records, two of one block in insertion order and
\* before them a record of an earlier block that was inserted after them.
C1_Witness ==
    \E t \in Tables, b \in QueryBlocks :
        LET l == LoadTagged(tables[t].rows, b)
        IN  /\ Len(l) >= 3
            /\ l[1].vid > l[2].vid
            /\ l[2].ds.creation_block = l[3].ds.creation_block
            /\ history.op = "insert"

\* C2: a row written by insert(records, b) and not changed or deleted since is
\* returned by load(b') exactly for the blocks b' >= b, and the value returned
\* for it is the record it was written from: creation_block = Some(b) and the
\* is_offchain it was inserted with.
C2_InsertedIsLoaded ==
    \A e \in inserted :
        /\ e.ds.creation_block = Some(e.block)
        /\ \A b \in QueryBlocks :
               LET l == LoadTagged(tables[e.tbl].rows, b)
               IN  /\ (b >= e.block) <=> (e.vid \in Vids(l))
                   /\ \A i \in DOMAIN l : l[i].vid = e.vid => l[i].ds = e.ds

\* C2 witness: an on-chain and an off-chain record inserted at the last block
\* and untouched, so that an earlier, the same and a later block are all asked.
C2_Witness ==
    \E e1, e2 \in inserted :
        /\ e1.tbl = e2.tbl /\ e1.block = MaxBlock /\ e2.block = MaxBlock
        /\ e1.ds.is_offchain /\ ~e2.ds.is_offchain
        /\ e1.vid \in Vids(LoadTagged(tables[e1.tbl].rows, MaxBlock))
        /\ e1.vid \notin Vids(LoadTagged(tables[e1.tbl].rows, MaxBlock - 1))

\* C3: from every reachable state, insert(records, b) followed by revert(b) on
\* the same table leaves load(x) for every x < b as it was before the insert,
\* and load(b) then returns none of the rows and none of the records of the batch.
C3_RevertUndoesInsert ==
    \A t \in Tables, b \in Blocks :
        \A dss \in InsertBatches[b][Room] :
            LET before == tables[t].rows
                ins == InsertFrom(tables[t], dss, b, 1, 0).tab.rows
                after == RevertRows(ins, b)
                batch == ins \ before
            IN  /\ \A x \in QueryBlocks : x < b => LoadRows(after, x) = LoadRows(before, x)
                /\ \A r \in batch :
                       /\ r.vid \notin Vids(LoadTagged(after, b))
                       /\ ToDataSource(r).ds \notin Range(LoadRows(after, b))

\* C3 witness: a revert(b) has followed at once an insert at b that wrote rows,
\* in a table where a row of an earlier block is live.
C3_Witness ==
    /\ history.op = "insert_revert"
    /\ \E r \in tables[history.tbl].rows :
           IsLive(r) /\ r.block_range.lower[1] < history.block
    /\ Cardinality(tables[history.tbl].rows) < tables[history.tbl].vid_seq

\* The row of table t with the given vid, if it is there.
RowsOf(t, vid) == {r \in tables[t].rows : r.vid = vid}

\* C4: in every table no two off-chain rows share a causality_region, no
\* causality_region is negative, and a row written by insert has a
\* causality_region > 0 if it was inserted off-chain and 0 if on-chain.
C4_CausalityRegions ==
    \A t \in Tables :
        /\ \A r1, r2 \in tables[t].rows :
               (r1.causality_region > 0 /\ r1.vid # r2.vid)
                   => r1.causality_region # r2.causality_region
        /\ \A r \in tables[t].rows : r.causality_region >= 0
        /\ \A e \in inserted : \A r \in RowsOf(e.tbl, e.vid) :
               IF e.ds.is_offchain THEN r.causality_region > 0
               ELSE r.causality_region = 0

\* C5, as stated: after every copy_to(dst, t), load(t) on dst returns the same
\* set of logical records as load(t) on the source.
C5_CopyLoadsEqual ==
    history.op = "copy_to" =>
        Range(load("dst", history.block)) = Range(load("src", history.block))

\* C5, amended: after a copy_to(dst, t) that found dst empty, load(t) on dst
\* returns the same set of logical records as load(t) on the source.
C5_CopyIntoEmptyLoadsEqual ==
    (history.op = "copy_to" /\ history.empty) =>
        Range(load("dst", history.block)) = Range(load("src", history.block))

\* C5 witness: a copy into an empty dst that copied a record, while the source
\* also holds a row that load at the target block does not return.
C5_Witness ==
    /\ history.op = "copy_to" /\ history.empty
    /\ load("dst", history.block) # <<>>
    /\ Cardinality(LiveAt(tables["src"].rows, history.block))
           < Cardinality(tables["src"].rows)

\* C6: from every reachable state, a copy_to(dst, t) that returns a count and
\* is followed at once by another copy_to(dst, t) gets the same count again and
\* leaves dst as the first call left it; and whenever dst holds a row, copy_to
\* leaves dst as it is and returns the number of its rows.
C6_CopyIdempotent ==
    \A t \in Blocks, debug \in BOOLEAN :
        /\ \A o1 \in CopyOutcomes(tables["src"], tables["dst"], t, debug) :
               o1.result.tag = "Ok" =>
                   \A o2 \in CopyOutcomes(tables["src"], o1.dst, t, debug) :
                       o2.result = o1.result /\ o2.dst = o1.dst
        /\ tables["dst"].rows # {} =>
               CopyOutcomes(tables["src"], tables["dst"], t, debug) =
                   {[dst |-> tables["dst"],
                     result |-> Ok(Cardinality(tables["dst"].rows))]}

\* C6 witness: a copy_to has followed at once a copy_to to the same block that
\* had copied rows, and returned their number.
C6_Witness ==
    /\ history.op = "copy_to" /\ history.again /\ ~history.empty
    /\ result = Ok(Cardinality(tables["dst"].rows))
    /\ Cardinality(tables["dst"].rows) >= 2

\* Rows r1 and r2 are live off-chain duplicates of each other.
Duplicates(r1, r2) ==
    /\ r1.vid # r2.vid
    /\ IsLive(r1) /\ IsLive(r2)
    /\ r1.causality_region > 0 /\ r2.causality_region > 0
    /\ r1.manifest_idx = r2.manifest_idx
    /\ r1.param = r2.param
    /\ r1.context = r2.context
    /\ Lower(r1.block_range) = Lower(r2.block_range)

\* C7: remove_offchain with a record that matches two live off-chain duplicates
\* returns the constraint violation, and after a remove_offchain that returned
\* it the duplicates that were live before the call have not both been closed.
C7_DuplicatesNotClosed ==
    /\ \A t \in Tables, ds \in StoredDynamicDataSource :
           (/\ ds.is_offchain
            /\ \E r1, r2 \in tables[t].rows :
                   Duplicates(r1, r2) /\ RemoveMatches(r1, ds))
               => RemoveFrom(tables[t].rows, <<ds>>, 1).result = TooMany
    /\ (history.op = "remove_offchain" /\ result = TooMany) =>
           \A r1, r2 \in history.pre :
               Duplicates(r1, r2) =>
                   r1 \in tables[history.tbl].rows \/ r2 \in tables[history.tbl].rows

\* The first record of the slice that insert(_, block) rejects, 0 if none.
FirstMismatch(data_sources, block) ==
    LET bad == {i \in DOMAIN data_sources : data_sources[i].creation_block # Some(block)}
    IN  IF bad = {} THEN 0 ELSE CHOOSE i \in bad : \A j \in bad : i <= j

\* C8: from every reachable state, insert(records, block) with a first record k
\* whose creation_block is not Some(block) returns the constraint violation,
\* has written one live row for each of the records 1..k-1, in their order,
\* and no other row, and has changed no row that was there; without such a
\* record it returns the number of records.
C8_InsertStopsAtMismatch ==
    \A t \in Tables, b \in Blocks :
        \A dss \in InsertBatches[b][Room] :
            LET o == InsertFrom(tables[t], dss, b, 1, 0)
                k == FirstMismatch(dss, b)
                written == o.tab.rows \ tables[t].rows
                n == IF k = 0 THEN Len(dss) ELSE k - 1
            IN  /\ o.result = IF k = 0 THEN Ok(Len(dss))
                               ELSE Err("mismatching creation blocks")
                /\ tables[t].rows \subseteq o.tab.rows
                /\ Cardinality(written) = n
                /\ \A i \in 1..n :
                       \E r \in written :
                           /\ r.vid = tables[t].vid_seq + i
                           /\ IsLive(r)
                           /\ ToDataSource(r).ds = dss[i]

\* C8 witness: an insert returned the constraint violation after it had
\* written a row, and that row is loaded.
C8_Witness ==
    /\ history.op = "insert" /\ result = Err("mismatching creation blocks")
    /\ DOMAIN history = {"op", "tbl", "block"}
    /\ tables[history.tbl].vid_seq
           \in Vids(LoadTagged(tables[history.tbl].rows, history.block))

\* C9: from every reachable state, a remove_offchain that returns Ok leaves
\* every row that was the one live row matching an off-chain input record with
\* the empty interval, and no load then returns that row or a record equal to
\* it, at any block.
C9_RemovedIsInvisible ==
    \A t \in Tables, dss \in RemoveBatches :
        LET before == tables[t].rows
            o == RemoveFrom(before, dss, 1)
        IN  o.result.tag = "Ok" =>
                \A i \in DOMAIN dss, r \in before :
                    (/\ dss[i].is_offchain
                     /\ IsLive(r)
                     /\ {x \in before : IsLive(x) /\ RemoveMatches(x, dss[i])} = {r})
                        => /\ [r EXCEPT !.block_range = EmptyRange] \in o.rows
                           /\ \A b \in QueryBlocks :
                                  /\ r.vid \notin Vids(LoadTagged(o.rows, b))
                                  /\ ToDataSource(r).ds \notin Range(LoadRows(o.rows, b))

\* C9 witness: a remove_offchain returned Ok and an off-chain row with the
\* empty interval stands next to a live row of the same table.
C9_Witness ==
    /\ history.op = "remove_offchain" /\ result.tag = "Ok"
    /\ \E t \in Tables : \E r1, r2 \in tables[t].rows :
           /\ r1.causality_region > 0 /\ r1.block_range = EmptyRange
           /\ IsLive(r2)

\* C10: from every reachable state, revert(block) deletes exactly the live rows
\* whose lower bound is block, on-chain or off-chain, and leaves every other
\* row as it is.
C10_RevertFrame ==
    \A t \in Tables, b \in Blocks :
        RevertRows(tables[t].rows, b) =
            tables[t].rows \ {r \in tables[t].rows :
                                 IsLive(r) /\ r.block_range.lower = Some(b)}

\* C10 witness: after a revert a table has lost a row and still holds a live
\* row and a row with the empty interval.
C10_Witness ==
    /\ history.op \in {"revert", "insert_revert"}
    /\ \E t \in Tables :
           /\ Cardinality(tables[t].rows) < tables[t].vid_seq
           /\ \E r1, r2 \in tables[t].rows : IsLive(r1) /\ ~IsLive(r2)

\* The index of the first on-chain record of data_sources, 0 if there is none.
FirstOnchain(data_sources) ==
    IF \A i \in DOMAIN data_sources : data_sources[i].is_offchain THEN 0
    ELSE CHOOSE i \in DOMAIN data_sources :
             /\ ~data_sources[i].is_offchain
             /\ \A j \in 1..(i - 1) : data_sources[j].is_offchain

\* C11: from every reachable state, a remove_offchain whose input holds an
\* on-chain record at position k, the first such, does what the records before
\* k alone do to the rows and, unless one of them already failed, returns the
\* constraint violation for on-chain input: every row the call changes matches
\* a record before k, none is changed for record k or a later one.
C11_RemoveStopsAtOnchain ==
    \A t \in Tables, dss \in RemoveBatches :
        LET before == tables[t].rows
            k == FirstOnchain(dss)
            o == RemoveFrom(before, dss, 1)
            p == RemoveFrom(before, SubSeq(dss, 1, k - 1), 1)
        IN  k # 0 =>
                /\ o.result \in {OnchainInput, TooMany}
                /\ o.rows = p.rows
                /\ p.result.tag = "Ok" => o.result = OnchainInput
                /\ k = 1 => o.rows = before /\ o.result = OnchainInput
                /\ \A r \in before \ o.rows :
                       \E i \in 1..(k - 1) : RemoveMatches(r, dss[i])

\* C11 witness: a remove_offchain returned the error for on-chain input, an
\* earlier record of the call having closed an off-chain row, and a live row
\* that has the payload and block of an on-chain record is still live.
C11_Witness ==
    /\ history.op = "remove_offchain" /\ result = OnchainInput
    /\ \E t \in Tables : \E r1, r2 \in tables[t].rows :
           /\ r1.causality_region > 0 /\ r1.block_range = EmptyRange
           /\ IsLive(r2) /\ r2.manifest_idx = 1 /\ r2.param = None
           /\ Lower(r2.block_range) = Some(0)

\* C12: in every step of two transactions that interleave their insert calls
\* on "src", commit and abort, every off-chain row the step writes gets a
\* causality_region above every value the sequence has handed out before, to
\* either transaction, committed or aborted; the sequence never goes back, and
\* no two off-chain rows of the table share a causality_region.
C12_RegionsNeverShared ==
    [][LET old == tables["src"]
           new == tables'["src"]
       IN  /\ new.cr_seq >= old.cr_seq
           /\ \A r \in new.rows :
                  /\ r.causality_region <= new.cr_seq
                  /\ (/\ r.causality_region > 0
                      /\ \A q \in old.rows : q.vid # r.vid)
                         => r.causality_region > old.cr_seq
           /\ \A r1, r2 \in new.rows :
                  (r1.causality_region > 0 /\ r1.causality_region = r2.causality_region)
                      => r1 = r2]_vars

\* C12 witness: a transaction has aborted after an off-chain insert, so that
\* its causality_region is a gap, and an insert that came after holds a larger
\* one in a transaction that is still open.
C12_Witness ==
    /\ history.op = "insert"
    /\ \E c \in 1..tables["src"].cr_seq :
           /\ \A r \in tables["src"].rows : r.causality_region # c
           /\ \E r \in tables["src"].rows, x \in Transactions :
                  r.causality_region > c /\ r.vid \in txn[x]

\* C13: in every reachable state every row of every table has the empty
\* interval or an interval with an included lower bound and no upper bound;
\* the lower bound of a row that insert wrote and nothing has changed since is
\* the block it was created at; load finds an included lower bound on every
\* row it selects, at every block, and so never reaches `unreachable!`.
C13_IntervalsOpenEnded ==
    /\ \A t \in Tables : \A r \in tables[t].rows :
           \/ r.block_range = EmptyRange
           \/ /\ ~r.block_range.empty
              /\ Lower(r.block_range) \in {Some(b) : b \in Blocks}
              /\ Upper(r.block_range) = None
    /\ \A e \in inserted : \A r \in RowsOf(e.tbl, e.vid) :
           r.block_range = Int4Range(Some(e.block), None)
    /\ \A t \in Tables, b \in QueryBlocks : \A r \in LiveAt(tables[t].rows, b) :
           /\ LowerBound(r.block_range).kind = "Included"
           /\ ToDataSource(r).ds.creation_block = Lower(r.block_range)

\* C13 witness: after a copy_to into an empty dst, dst holds a live row and
\* "src" holds a row with the empty interval next to a live one.
C13_Witness ==
    /\ history.op = "copy_to" /\ history.empty
    /\ \E r \in tables["dst"].rows : IsLive(r)
    /\ \E r1, r2 \in tables["src"].rows : r1.block_range = EmptyRange /\ IsLive(r2)

\* The row d of dst is the copy of the row e of the source: every column but
\* vid is the same, and the interval is [lower, +inf).
IsCopyOf(d, e) ==
    /\ d.causality_region = e.causality_region
    /\ d.manifest_idx = e.manifest_idx
    /\ d.param = e.param
    /\ d.context = e.context
    /\ d.parent = e.parent /\ d.id = e.id
    /\ Lower(d.block_range) = Lower(e.block_range)
    /\ d.block_range = Int4Range(Lower(e.block_range), None)

\* C14: after a copy_to(dst, t) that found dst empty, the rows of dst are the
\* copies, one each, of the rows of the source whose lower bound is <= t; no
\* row of dst has a lower bound above t; the vids are the next ones of the
\* sequence of dst; and a call that returned, returned the number of rows it
\* inserted.
C14_CopyInsertsSelected ==
    (history.op = "copy_to" /\ history.empty) =>
        LET t == history.block
            sel == {e \in tables["src"].rows :
                       Lower(e.block_range) # None /\ Lower(e.block_range)[1] <= t}
            dst == tables["dst"]
        IN  /\ \E f \in [sel -> dst.rows] :
                   /\ \A e1, e2 \in sel : f[e1] = f[e2] => e1 = e2
                   /\ \A d \in dst.rows : \E e \in sel : f[e] = d
                   /\ \A e \in sel : IsCopyOf(f[e], e)
            /\ \A d \in dst.rows : Lower(d.block_range)[1] <= t
            /\ {d.vid : d \in dst.rows} =
                   (dst.vid_seq - Cardinality(sel) + 1)..dst.vid_seq
            /\ result.tag = "Ok" => result = Ok(Cardinality(sel))

\* C14 witness: a copy_to into an empty dst returned a count above zero, one
\* of the copies is off-chain, and the source holds a live row created after
\* the target block.
C14_Witness ==
    /\ history.op = "copy_to" /\ history.empty
    /\ result.tag = "Ok" /\ result # Ok(0)
    /\ \E d \in tables["dst"].rows : d.causality_region > 0
    /\ \E e \in tables["src"].rows :
           IsLive(e) /\ Lower(e.block_range)[1] > history.block

\* C15: every copy_to step, whether it copies or finds a row in dst and
\* returns its count, leaves the source table as it is: its rows with their
\* intervals, its vid sequence and its causality_region sequence.
C15_CopyLeavesSource ==
    [][history'.op = "copy_to" =>
           /\ tables'["src"].rows = tables["src"].rows
           /\ tables'["src"].vid_seq = tables["src"].vid_seq
           /\ tables'["src"].cr_seq = tables["src"].cr_seq]_vars

\* C15 witness: a copy_to has copied rows into an empty dst from a source
\* whose two sequences have handed out more values than it has rows.
C15_Witness ==
    /\ history.op = "copy_to" /\ history.empty
    /\ tables["dst"].rows # {}
    /\ Cardinality(tables["src"].rows) < tables["src"].vid_seq
    /\ tables["src"].cr_seq > 0

\* C16: from every reachable state, remove_offchain of one off-chain record,
\* its creation_block a block or None, changes no row but live ones; rows with
\* the empty interval do not count as matches, so the call returns Ok when at
\* most one live row matches the record; and it changes nothing when no live
\* row matches, as when the record has been removed before.
C16_RemoveTouchesLiveOnly ==
    \A t \in Tables, ds \in StoredDynamicDataSource :
        ds.is_offchain =>
            LET before == tables[t].rows
                o == RemoveFrom(before, <<ds>>, 1)
                live == {r \in before : IsLive(r) /\ RemoveMatches(r, ds)}
            IN  /\ \A r \in before \ o.rows : IsLive(r)
                /\ Cardinality(live) <= 1 => o.result = Ok(None)
                /\ live = {} => o.rows = before

\* C17: after a copy_to(dst, t) that found dst empty and returned, load(t) on
\* dst returns the same records in the same order as load(t) on the source.
C17_CopyKeepsLoadOrder ==
    (history.op = "copy_to" /\ history.empty /\ result.tag = "Ok") =>
        load("dst", history.block) = load("src", history.block)

\* C18: in every step, every row that is new in a table has a vid above every
\* vid the sequence of the table has handed out before, whether the row it
\* went to is still there or has been deleted by revert; the sequence never
\* goes back; the rows of a table have vids of their own, none above the
\* sequence.
C18_VidsNeverReused ==
    [][\A t \in Tables :
           LET old == tables[t]
               new == tables'[t]
           IN  /\ new.vid_seq >= old.vid_seq
               /\ \A r \in new.rows :
                      /\ r.vid <= new.vid_seq
                      /\ (\A q \in old.rows : q.vid # r.vid) => r.vid > old.vid_seq
               /\ \A r1, r2 \in new.rows : r1.vid = r2.vid => r1 = r2]_vars

\* C18 witness: an insert has written a row after a revert deleted the row
\* with the largest vid: the table has fewer rows than vids handed out, and
\* the vid below that of the newest row is free.
C18_Witness ==
    /\ history.op = "insert"
    /\ \E t \in Tables :
           /\ tables[t].vid_seq >= 2
           /\ RowsOf(t, tables[t].vid_seq) # {}
           /\ RowsOf(t, tables[t].vid_seq - 1) = {}
           /\ \A e \in inserted : e.tbl = t => e.vid = tables[t].vid_seq

\* C19: from every reachable state, remove_offchain of one off-chain record
\* created at some block leaves every on-chain row (causality_region = 0) as
\* it is, live at the blocks it was live at; and on-chain rows do not count as
\* matches: the call returns Ok when at most one off-chain row matches.
C19_RemoveSparesOnchain ==
    \A t \in Tables, ds \in StoredDynamicDataSource :
        (ds.is_offchain /\ ds.creation_block # None) =>
            LET before == tables[t].rows
                o == RemoveFrom(before, <<ds>>, 1)
            IN  /\ \A r \in before : r.causality_region = 0 => r \in o.rows
                /\ \A b \in QueryBlocks :
                       {r \in LiveAt(before, b) : r.causality_region = 0}
                           \subseteq LiveAt(o.rows, b)
                /\ Cardinality({r \in before : /\ r.causality_region > 0
                                                /\ RemoveMatches(r, ds)}) <= 1
                       => o.result = Ok(None)

\* The highest creation block of a live row, -1 if no row is live.
HighestCreation(rows) ==
    CHOOSE h \in {-1} \cup {Lower(r.block_range)[1] : r \in {x \in rows : IsLive(x)}} :
        \A r \in rows : IsLive(r) => Lower(r.block_range)[1] <= h

\* The rows after revert(block), revert(block - 1), ..., revert(b + 1).
RECURSIVE RevertDownTo(_, _, _)
RevertDownTo(rows, block, b) ==
    IF block <= b THEN rows
    ELSE RevertDownTo(RevertRows(rows, block), block - 1, b)

\* C20: from every reachable state and for every b, one revert for each block
\* from the highest creation block down to b + 1 leaves no live row created
\* after b, leaves every other row as it is and load(x) as it was for every
\* x <= b; and a single revert(b') deletes no live row created after b'.
C20_RollbackByReverts ==
    \A t \in Tables :
        LET rows == tables[t].rows
        IN  /\ \A b \in (-1)..MaxBlock :
                   LET after == RevertDownTo(rows, HighestCreation(rows), b)
                   IN  /\ \A r \in after :
                              IsLive(r) => Lower(r.block_range)[1] <= b
                       /\ {r \in rows : IsLive(r) => Lower(r.block_range)[1] <= b}
                              = after
                       /\ \A x \in QueryBlocks :
                              x <= b => LoadRows(after, x) = LoadRows(rows, x)
            /\ \A b \in Blocks, r \in rows :
                   (IsLive(r) /\ Lower(r.block_range)[1] > b)
                       => r \in RevertRows(rows, b)

\* C20 witness: after a revert a table that has handed out three vids holds
\* one row, live and created at block 0, and none created later: the rows of
\* the later block have been rolled back.
C20_Witness ==
    /\ history.op = "revert"
    /\ \E t \in Tables :
           /\ tables[t].vid_seq = 3
           /\ Cardinality(tables[t].rows) = 1
           /\ \A r \in tables[t].rows : IsLive(r) /\ Lower(r.block_range) = Some(0)
====
